---- MODULE Spec2Model ----
(***************************************************************************)
(* Model of the FIFI scoring-and-sizing engine (src/src/fifi_app).         *)
(*                                                                         *)
(* The Python code computes on floats.  The model computes on exact        *)
(* rationals <<n, d>> (d > 0, lowest terms), so every identity below is an *)
(* identity of the arithmetic the code writes down, not of its rounding.   *)
(* A Python exception is modelled as an outcome record whose "status"      *)
(* names the exception.                                                    *)
(***************************************************************************)
EXTENDS Integers, Sequences, FiniteSets, TLC

(***************************************************************************)
(* Rational arithmetic (Python float operators +, -, *, /, <, <=, abs,     *)
(* min, max as the sources use them).                                      *)
(***************************************************************************)
Abs(i) == IF i < 0 THEN -i ELSE i

RECURSIVE Gcd(_, _)
Gcd(a, b) == IF b = 0 THEN a ELSE Gcd(b, a % b)

Lcm(a, b) == (a \div Gcd(a, b)) * b

\* The rational n/d in lowest terms with a positive denominator (d # 0).
Rat(n, d) ==
    IF n = 0
    THEN <<0, 1>>
    ELSE LET g == Gcd(Abs(n), Abs(d))
             s == IF d < 0 THEN -1 ELSE 1
         IN  <<(s * n) \div g, (s * d) \div g>>

Int2R(i) == <<i, 1>>

R0 == <<0, 1>>

R1 == <<1, 1>>

RHalf == <<1, 2>>

RAdd(a, b) ==
    IF a[2] = b[2]
    THEN Rat(a[1] + b[1], a[2])
    ELSE LET l == Lcm(a[2], b[2])
         IN  Rat(a[1] * (l \div a[2]) + b[1] * (l \div b[2]), l)

RNeg(a) == <<-a[1], a[2]>>

RSub(a, b) ==
    IF a[2] = b[2]
    THEN Rat(a[1] - b[1], a[2])
    ELSE LET l == Lcm(a[2], b[2])
         IN  Rat(a[1] * (l \div a[2]) - b[1] * (l \div b[2]), l)

RMul(a, b) ==
    IF a[1] = 0 \/ b[1] = 0
    THEN <<0, 1>>
    ELSE LET g1 == Gcd(Abs(a[1]), b[2])
             g2 == Gcd(Abs(b[1]), a[2])
         IN  <<(a[1] \div g1) * (b[1] \div g2), (a[2] \div g2) * (b[2] \div g1)>>

\* a / b for b # 0; the callers decide what a zero divisor does.
RDiv(a, b) ==
    IF b[1] < 0
    THEN RMul(a, <<-b[2], -b[1]>>)
    ELSE RMul(a, <<b[2], b[1]>>)

RLt(a, b) ==
    IF a[2] = b[2]
    THEN a[1] < b[1]
    ELSE LET l == Lcm(a[2], b[2])
         IN  a[1] * (l \div a[2]) < b[1] * (l \div b[2])

RLe(a, b) == ~RLt(b, a)

RAbs(a) == <<Abs(a[1]), a[2]>>

RMin(a, b) == IF RLt(b, a) THEN b ELSE a

RMax(a, b) == IF RLt(a, b) THEN b ELSE a

\* max(0.0, min(1.0, x)), the clamp both scorers end with.
Clamp01(x) == RMax(R0, RMin(R1, x))

InUnit(x) == RLe(R0, x) /\ RLe(x, R1)

(***************************************************************************)
(* State.  weights and risk are ConfigManager._config.weights and .risk;   *)
(* op, args and out are the last operation called, its arguments and its   *)
(* outcome (the value returned, or the exception raised).                  *)
(***************************************************************************)
VARIABLES weights, risk, dashboard, op, args, out

vars == <<weights, risk, dashboard, op, args, out>>

NoValue == [none |-> TRUE]

\* The DashboardTab before its first update_state: every label shows "-".
Blank == [blank |-> TRUE]

\* The caller is back at rest (the handlers run to completion, one at a time,
\* from the Qt event loop): the next operation can be called.
Return ==
    /\ op # "idle"
    /\ op' = "idle"
    /\ args' = NoValue
    /\ out' = NoValue
    /\ UNCHANGED <<weights, risk, dashboard>>

(***************************************************************************)
(* config.py: RiskConfig                                                   *)
(***************************************************************************)
Pct(n) == Rat(n, 100)

\* Field(default=..., ge=0.0, le=1.0) on each of the four fields.
RiskConfigDefault ==
    [max_position_size_pct |-> Pct(5), max_daily_loss_pct |-> Pct(2),
     stop_loss_pct |-> Pct(3), take_profit_pct |-> Pct(6)]

RiskFields ==
    {"max_position_size_pct", "max_daily_loss_pct", "stop_loss_pct", "take_profit_pct"}

\* What pydantic lets through when a RiskConfig is constructed.
RiskConfigValid(r) == \A f \in RiskFields : RLe(R0, r[f]) /\ RLe(r[f], R1)

(***************************************************************************)
(* config.py: WeightConfig, AppConfig, ConfigManager                       *)
(***************************************************************************)
WeightFields == {"technical", "fundamental", "sentiment"}

WeightConfigDefault ==
    [technical |-> Rat(6, 10), fundamental |-> Rat(25, 100), sentiment |-> Rat(15, 100)]

\* 1e-6, the tolerance of _ensure_total.
Epsilon == Rat(1, 1000000)

WeightSum(w) == RAdd(RAdd(w.technical, w.fundamental), w.sentiment)

\* Field(ge=0.0, le=1.0): the constraint of one field.
FieldInRange(v) == RLe(R0, v) /\ RLe(v, R1)

\* The value a model field takes from keyword data: the datum when the key is
\* supplied, the field's default when it is not.
FieldValue(data, dflt, f) == IF f \in DOMAIN data THEN data[f] ELSE dflt[f]

\* @validator("sentiment") _ensure_total(v, values): values holds the fields
\* validated before sentiment; one that failed its constraint is missing from
\* it and counts as 0.0.
_ensure_total(v, values) ==
    LET technical == IF "technical" \in DOMAIN values THEN values["technical"] ELSE R0
        fundamental == IF "fundamental" \in DOMAIN values THEN values["fundamental"] ELSE R0
        total == RAdd(RAdd(v, technical), fundamental)
    IN  ~RLt(Epsilon, RAbs(RSub(total, R1)))

\* WeightConfig(**data), data a function from the supplied keys to numbers.
\* Supplied fields are checked against ge/le; defaults are not validated, and
\* the sentiment validator runs only when sentiment is supplied and in range.
WeightConfig(data) ==
    LET value(f) == FieldValue(data, WeightConfigDefault, f)
        fieldOk(f) == f \in DOMAIN data => FieldInRange(data[f])
        values == [f \in {g \in {"technical", "fundamental"} : fieldOk(g)} |-> value(f)]
        totalOk == ("sentiment" \in DOMAIN data /\ fieldOk("sentiment"))
                       => _ensure_total(data["sentiment"], values)
    IN  IF (\A f \in WeightFields : fieldOk(f)) /\ totalOk
        THEN [status |-> "ok", value |-> [f \in WeightFields |-> value(f)]]
        ELSE [status |-> "ValidationError"]

\* RiskConfig(**data).
RiskConfig(data) ==
    LET r == [f \in RiskFields |-> FieldValue(data, RiskConfigDefault, f)]
    IN  IF RiskConfigValid(r)
        THEN [status |-> "ok", value |-> r]
        ELSE [status |-> "ValidationError"]

\* AppConfig(**data) restricted to its weights and risk sections; an absent
\* section takes default_factory's value.
AppConfig(data) ==
    LET w == WeightConfig(data.weights)
        r == RiskConfig(data.risk)
    IN  IF w.status = "ok" /\ r.status = "ok"
        THEN [status |-> "ok", weights |-> w.value, risk |-> r.value]
        ELSE [status |-> "ValidationError"]

\* ConfigManager.load on a config file of the given content: the new
\* (weights, risk) and the outcome.
load(cur, content) ==
    CASE content.kind = "missing" -> [cfg |-> cur, status |-> "ok"]
      [] content.kind = "bad_json" ->
            [cfg |-> [weights |-> WeightConfigDefault, risk |-> RiskConfigDefault],
             status |-> "ok"]
      [] content.kind = "non_object" -> [cfg |-> cur, status |-> "TypeError"]
      [] content.kind = "object" ->
            LET a == AppConfig(content)
            IN  IF a.status = "ok"
                THEN [cfg |-> [weights |-> a.weights, risk |-> a.risk], status |-> "ok"]
                ELSE [cfg |-> [weights |-> WeightConfigDefault, risk |-> RiskConfigDefault],
                      status |-> "ok"]

\* ConfigManager.update_weights: the WeightConfig is built first; when it
\* raises, the assignment does not happen.
update_weights(cur, technical, fundamental, sentiment) ==
    LET w == WeightConfig([technical |-> technical, fundamental |-> fundamental,
                           sentiment |-> sentiment])
    IN  IF w.status = "ok"
        THEN [weights |-> w.value, status |-> "ok"]
        ELSE [weights |-> cur, status |-> "ValidationError"]

\* ConfigManager.update_risk(**kwargs): model_copy(update=kwargs) does not
\* validate, RiskConfig(**updated.model_dump()) does.
update_risk(cur, kwargs) ==
    LET updated == [f \in RiskFields |-> IF f \in DOMAIN kwargs THEN kwargs[f] ELSE cur[f]]
        r == RiskConfig(updated)
    IN  IF r.status = "ok"
        THEN [risk |-> r.value, status |-> "ok"]
        ELSE [risk |-> cur, status |-> "ValidationError"]

\* Numbers a config file or the settings form can hold for a weight.
\* 1/2 + 2e-7: within the tolerance of a half.
NearHalf == Rat(2500001, 5000000)

WeightVals == {Rat(-1, 4), R0, Rat(1, 4), RHalf, NearHalf, R1}

\* A keyword dictionary: a function from some of the keys to values.
Partial(keys, vals) == UNION {[S -> vals] : S \in SUBSET keys}

RiskFileData == {<<>>, [stop_loss_pct |-> Pct(5)], [stop_loss_pct |-> Rat(3, 2)]}

FileContents ==
    {[kind |-> k, weights |-> <<>>, risk |-> <<>>] : k \in {"missing", "bad_json", "non_object"}}
    \cup [kind : {"object"}, weights : Partial(WeightFields, WeightVals), risk : RiskFileData]

RiskKwargs ==
    {[stop_loss_pct |-> v] : v \in {R0, R1, Rat(3, 2)}}
    \cup {[max_position_size_pct |-> Pct(3), max_daily_loss_pct |-> Pct(2),
           stop_loss_pct |-> Pct(5), take_profit_pct |-> v] : v \in {Pct(6), Rat(-1, 10)}}

Load ==
    \E content \in FileContents :
        LET l == load([weights |-> weights, risk |-> risk], content)
        IN  /\ op = "idle"
            /\ op' = "load"
            /\ args' = content
            /\ weights' = l.cfg.weights
            /\ risk' = l.cfg.risk
            /\ out' = [status |-> l.status]
            /\ UNCHANGED dashboard

UpdateWeights ==
    \E t \in WeightVals, f \in WeightVals, s \in WeightVals :
        LET u == update_weights(weights, t, f, s)
        IN  /\ op = "idle"
            /\ op' = "update_weights"
            /\ args' = [technical |-> t, fundamental |-> f, sentiment |-> s]
            /\ weights' = u.weights
            /\ out' = [status |-> u.status]
            /\ UNCHANGED <<risk, dashboard>>

UpdateRisk ==
    \E kwargs \in RiskKwargs :
        LET u == update_risk(risk, kwargs)
        IN  /\ op = "idle"
            /\ op' = "update_risk"
            /\ args' = kwargs
            /\ risk' = u.risk
            /\ out' = [status |-> u.status]
            /\ UNCHANGED <<weights, dashboard>>

(***************************************************************************)
(* risk.py: compute_position_size                                          *)
(***************************************************************************)
\* The capital at risk also limited by the daily loss allowance.
capital_at_risk_daily_capped(capital, config) ==
    RMul(capital, RMin(config.max_position_size_pct, config.max_daily_loss_pct))

capital_at_risk(capital, config) == RMul(capital, config.max_position_size_pct)

\* A sign slip: price * (stop_loss_pct - 1).
stop_loss_price_flipped(price, config) == RMul(price, RSub(config.stop_loss_pct, R1))

stop_loss_price(price, config) == RMul(price, RSub(R1, config.stop_loss_pct))

take_profit_price(price, config) == RMul(price, RAdd(R1, config.take_profit_pct))

\* The guard written with < instead of <=.
invalid_risk_strict(risk_per_unit, stop_price) == RLt(risk_per_unit, R0)

\* The guard also rejecting a stop-loss price that is not positive.
invalid_risk_or_stop(risk_per_unit, stop_price) ==
    RLe(risk_per_unit, R0) \/ RLe(stop_price, R0)

\* if risk_per_unit <= 0: raise ValueError(...)
invalid_risk(risk_per_unit, stop_price) == RLe(risk_per_unit, R0)

\* The size without the affordability cap.
position_size_uncapped(car, risk_per_unit, capital, price) == RDiv(car, risk_per_unit)

\* The size with the position's value capped at the capital at risk.
position_size_value_capped(car, risk_per_unit, capital, price) ==
    RMin(RDiv(car, risk_per_unit), RDiv(car, price))

\* min(capital_at_risk / risk_per_unit, capital / price)
position_size(car, risk_per_unit, capital, price) ==
    RMin(RDiv(car, risk_per_unit), RDiv(capital, price))

\* The outcome of compute_position_size: the result, or the exception.
\* divisions counts the divisions performed before the function left.
compute_position_size(capital, price, config) ==
    LET risk_per_unit == RSub(price, stop_loss_price(price, config))
    IN  IF invalid_risk(risk_per_unit, stop_loss_price(price, config))
        THEN [status |-> "ValueError", divisions |-> 0]
        ELSE IF risk_per_unit = R0 \/ price = R0
        THEN [status |-> "ZeroDivisionError", divisions |-> 0]
        ELSE [status |-> "ok", divisions |-> 2,
              capital_at_risk |-> capital_at_risk(capital, config),
              position_size |-> position_size(capital_at_risk(capital, config),
                                              risk_per_unit, capital, price),
              stop_loss_price |-> stop_loss_price(price, config),
              take_profit_price |-> take_profit_price(price, config)]

\* Inputs of the sizing calls.
Capitals == {Int2R(-100), R0, Int2R(100), Int2R(10000)}

Prices == {Int2R(-10), R0, Int2R(10), Int2R(100)}

PctVals == {Rat(-1, 10), R0, Pct(3), Pct(5), RHalf, R1, Rat(3, 2)}

DailyVals == {R0, Pct(2), R1}

RiskCandidates ==
    [max_position_size_pct : PctVals, max_daily_loss_pct : DailyVals,
     stop_loss_pct : PctVals, take_profit_pct : {Rat(-1, 10), R0, Pct(6), R1}]

\* compute_position_size(capital, price, config) on a constructed RiskConfig.
ComputePositionSize ==
    \E capital \in Capitals, price \in Prices, r \in RiskCandidates :
        /\ op = "idle"
        /\ RiskConfigValid(r)
        /\ op' = "compute_position_size"
        /\ args' = [capital |-> capital, price |-> price, config |-> r]
        /\ out' = compute_position_size(capital, price, r)
        /\ UNCHANGED <<weights, risk, dashboard>>

(***************************************************************************)
(* fundamental.py: FundamentalSnapshot, score_fundamentals                 *)
(***************************************************************************)
\* Python's None, and pandas' NaN: no value.
None == <<>>

NaN == <<>>

FundFields ==
    {"pe_ratio", "peg_ratio", "debt_to_equity", "revenue_growth_pct", "earnings_growth_pct"}

\* FundamentalSnapshot(symbol): every optional field absent.
EmptySnapshot == [f \in FundFields |-> None]

\* The running (score, weight) pair of score_fundamentals.
Acc0 == [score |-> R0, weight |-> 0]

\* add(metric, ideal, tolerance)
add(acc, metric, ideal, tolerance) ==
    IF metric = None
    THEN acc
    ELSE LET deviation == RMax(R0, RSub(R1, RDiv(RAbs(RSub(metric, ideal)), tolerance)))
         IN  [score |-> RAdd(acc.score, deviation), weight |-> acc.weight + 1]

\* The growth term floored at 0, like the ratio terms.
add_growth_floored(acc, growth) ==
    IF growth = None
    THEN acc
    ELSE [score |-> RAdd(acc.score, RMax(R0, RMin(R1, RDiv(growth, Int2R(20))))),
          weight |-> acc.weight + 1]

\* if growth is not None: score += min(1.0, growth / 20.0); weight += 1.0
add_growth(acc, growth) ==
    IF growth = None
    THEN acc
    ELSE [score |-> RAdd(acc.score, RMin(R1, RDiv(growth, Int2R(20)))),
          weight |-> acc.weight + 1]

score_fundamentals(snapshot) ==
    LET a1 == add(Acc0, snapshot.pe_ratio, Int2R(20), Int2R(15))
        a2 == add(a1, snapshot.peg_ratio, R1, R1)
        a3 == add(a2, snapshot.debt_to_equity, RHalf, Rat(7, 10))
        a4 == add_growth(a3, snapshot.revenue_growth_pct)
        a5 == add_growth(a4, snapshot.earnings_growth_pct)
    IN  IF a5.weight = 0
        THEN RHalf
        ELSE Clamp01(RDiv(a5.score, Int2R(a5.weight)))

(***************************************************************************)
(* sentiment.py: aggregate_sentiment (items: the NewsItem.sentiment values) *)
(***************************************************************************)
\* Python's sum(): the sum of q[lo..hi], by halves.
RECURSIVE SumRange(_, _, _)
SumRange(q, lo, hi) ==
    IF lo > hi THEN R0
    ELSE IF lo = hi THEN q[lo]
    ELSE LET mid == (lo + hi) \div 2
         IN  RAdd(SumRange(q, lo, mid), SumRange(q, mid + 1, hi))

SumSeq(q) == SumRange(q, 1, Len(q))

\* The aggregate with the empty collection scored 0.
aggregate_sentiment_empty_zero(items) ==
    IF items = <<>>
    THEN R0
    ELSE RDiv(SumSeq([i \in 1..Len(items) |-> RDiv(RAdd(items[i], R1), Int2R(2))]),
              Int2R(Len(items)))

\* The aggregate with each mapped sentiment clamped to [0,1].
aggregate_sentiment_clamped(items) ==
    IF items = <<>>
    THEN RHalf
    ELSE RDiv(SumSeq([i \in 1..Len(items) |->
                         Clamp01(RDiv(RAdd(items[i], R1), Int2R(2)))]),
              Int2R(Len(items)))

aggregate_sentiment(items) ==
    IF items = <<>>
    THEN RHalf
    ELSE LET normalized == [i \in 1..Len(items) |-> RDiv(RAdd(items[i], R1), Int2R(2))]
         IN  RDiv(SumSeq(normalized), Int2R(Len(normalized)))

(***************************************************************************)
(* technical.py.  A DataFrame is its "close" column, a sequence of closes  *)
(* in whole ticks; a derived pandas Series is a sequence of rationals, NaN *)
(* where it has no value.                                                  *)
(***************************************************************************)
ShortWindow == 20

LongWindow == 50

RsiWindow == 14

BollWindow == 20

NumStd == 2

\* The sum of the integers x[lo..hi], by halves.
RECURSIVE IntSum(_, _, _)
IntSum(x, lo, hi) ==
    IF lo > hi THEN 0
    ELSE IF lo = hi THEN x[lo]
    ELSE LET mid == (lo + hi) \div 2
         IN  IntSum(x, lo, mid) + IntSum(x, mid + 1, hi)

\* x.rolling(window, min_periods=window).mean() at position i, for a series x
\* over 1..n whose positions before first are NaN: the mean of the window
\* values ending at i, NaN when the window holds fewer than window values.
RollingMeanAt(x, window, first, i) ==
    IF i - window + 1 < first
    THEN NaN
    ELSE Rat(IntSum(x, i - window + 1, i), window)

\* The rolling mean with min_periods = 1: the mean of the closes there are.
moving_average_partial(close, window) ==
    [i \in 1..Len(close) |->
        IF i < window THEN Rat(IntSum(close, 1, i), i)
        ELSE Rat(IntSum(close, i - window + 1, i), window)]

moving_average(close, window) ==
    [i \in 1..Len(close) |-> RollingMeanAt(close, window, 1, i)]

\* 100 - 100 / (1 + roll_up / roll_down) in float arithmetic: x/0 is inf for
\* x > 0 and NaN for x = 0, and 100/(1 + inf) is 0.
RsiValue(roll_up, roll_down) ==
    IF roll_up = NaN \/ roll_down = NaN
    THEN NaN
    ELSE IF roll_down = R0
    THEN (IF roll_up = R0 THEN NaN ELSE Int2R(100))
    ELSE RSub(Int2R(100),
              RDiv(Int2R(100), RAdd(R1, RDiv(roll_up, roll_down))))

\* The index without the final fillna(50).
relative_strength_index_unfilled(close, window) ==
    LET delta == [i \in 1..Len(close) |-> IF i = 1 THEN 0 ELSE close[i] - close[i - 1]]
        up == [i \in 1..Len(close) |-> IF delta[i] > 0 THEN delta[i] ELSE 0]
        down == [i \in 1..Len(close) |-> IF delta[i] < 0 THEN -delta[i] ELSE 0]
    IN  [i \in 1..Len(close) |->
            RsiValue(RollingMeanAt(up, window, 2, i), RollingMeanAt(down, window, 2, i))]

\* delta = close.diff() has no value at the first position; up and down are
\* its positive and negated negative parts.
relative_strength_index(close, window) ==
    LET delta == [i \in 1..Len(close) |-> IF i = 1 THEN 0 ELSE close[i] - close[i - 1]]
        up == [i \in 1..Len(close) |-> IF delta[i] > 0 THEN delta[i] ELSE 0]
        down == [i \in 1..Len(close) |-> IF delta[i] < 0 THEN -delta[i] ELSE 0]
        rsi == [i \in 1..Len(close) |->
                   RsiValue(RollingMeanAt(up, window, 2, i),
                            RollingMeanAt(down, window, 2, i))]
    IN  [i \in 1..Len(close) |-> IF rsi[i] = NaN THEN Int2R(50) ELSE rsi[i]]

\* Square roots are taken to 1/SqrtScale, rounded down.
SqrtScale == 100

RECURSIVE IsqrtBetween(_, _, _)
IsqrtBetween(n, lo, hi) ==
    IF lo >= hi
    THEN lo
    ELSE LET mid == (lo + hi + 1) \div 2
         IN  IF mid * mid <= n
             THEN IsqrtBetween(n, mid, hi)
             ELSE IsqrtBetween(n, lo, mid - 1)

\* The largest k with k*k <= n, for 0 <= n.
Isqrt(n) == IsqrtBetween(n, 0, IF n < 46340 THEN n ELSE 46340)

RSqrt(x) == Rat(Isqrt((x[1] * SqrtScale * SqrtScale) \div x[2]), SqrtScale)

\* x.rolling(window, min_periods=window).std() at position i: the sample
\* standard deviation (ddof = 1) of the window ending at i, from the window's
\* sum and sum of squares.
RollingStdAt(x, window, i) ==
    IF i - window + 1 < 1 \/ window < 2
    THEN NaN
    ELSE LET sum == IntSum(x, i - window + 1, i)
             squares == IntSum([j \in 1..Len(x) |-> x[j] * x[j]], i - window + 1, i)
         IN  RSqrt(Rat(window * squares - sum * sum, window * (window - 1)))

bollinger_bands(close, window, num_std) ==
    [i \in 1..Len(close) |->
        LET ma == moving_average(close, window)[i]
            std == RollingStdAt(close, window, i)
        IN  [ma |-> ma,
             upper |-> IF ma = NaN \/ std = NaN THEN NaN
                       ELSE RAdd(ma, RMul(Int2R(num_std), std)),
             lower |-> IF ma = NaN \/ std = NaN THEN NaN
                       ELSE RSub(ma, RMul(Int2R(num_std), std))]]

\* The RSI sub-score with the oversold and overbought values exchanged.
rsi_band_swapped(rsi) ==
    IF RLe(Int2R(40), rsi) /\ RLe(rsi, Int2R(60)) THEN RHalf
    ELSE IF RLt(rsi, Int2R(30)) THEN Rat(2, 10)
    ELSE IF RLt(Int2R(70), rsi) THEN Rat(8, 10)
    ELSE Rat(6, 10)

\* The RSI sub-score of score_technical.
rsi_band(rsi) ==
    IF RLe(Int2R(40), rsi) /\ RLe(rsi, Int2R(60)) THEN RHalf
    ELSE IF RLt(rsi, Int2R(30)) THEN Rat(8, 10)
    ELSE IF RLt(Int2R(70), rsi) THEN Rat(2, 10)
    ELSE Rat(6, 10)

\* score_technical with the trend test written >= instead of >.
score_technical_trend_nonstrict(close) ==
    IF close = <<>>
    THEN RHalf
    ELSE LET last == Len(close)
             price == Int2R(close[last])
             ma_short == moving_average(close, ShortWindow)[last]
             ma_long == moving_average(close, LongWindow)[last]
             rsi == relative_strength_index(close, RsiWindow)[last]
             boll == bollinger_bands(close, BollWindow, NumStd)[last]
             s1 == IF ma_short # NaN /\ ma_long # NaN
                   THEN [score |-> IF RLe(ma_long, ma_short) THEN R1 ELSE R0, weight |-> 1]
                   ELSE Acc0
             s2 == IF rsi # NaN
                   THEN [score |-> RAdd(s1.score, rsi_band(rsi)), weight |-> s1.weight + 1]
                   ELSE s1
             s3 == IF boll.lower # NaN /\ boll.upper # NaN /\ boll.upper # boll.lower
                   THEN LET position == RDiv(RSub(price, boll.lower),
                                             RSub(boll.upper, boll.lower))
                        IN  [score |-> RAdd(s2.score, Clamp01(RSub(R1, position))),
                             weight |-> s2.weight + 1]
                   ELSE s2
         IN  IF s3.weight = 0
             THEN RHalf
             ELSE Clamp01(RDiv(s3.score, Int2R(s3.weight)))

score_technical(close) ==
    IF close = <<>>
    THEN RHalf
    ELSE LET last == Len(close)
             price == Int2R(close[last])
             ma_short == moving_average(close, ShortWindow)[last]
             ma_long == moving_average(close, LongWindow)[last]
             rsi == relative_strength_index(close, RsiWindow)[last]
             boll == bollinger_bands(close, BollWindow, NumStd)[last]
             s1 == IF ma_short # NaN /\ ma_long # NaN
                   THEN [score |-> IF RLt(ma_long, ma_short) THEN R1 ELSE R0, weight |-> 1]
                   ELSE Acc0
             s2 == IF rsi # NaN
                   THEN [score |-> RAdd(s1.score, rsi_band(rsi)), weight |-> s1.weight + 1]
                   ELSE s1
             s3 == IF boll.lower # NaN /\ boll.upper # NaN /\ boll.upper # boll.lower
                   THEN LET position == RDiv(RSub(price, boll.lower),
                                             RSub(boll.upper, boll.lower))
                        IN  [score |-> RAdd(s2.score, Clamp01(RSub(R1, position))),
                             weight |-> s2.weight + 1]
                   ELSE s2
         IN  IF s3.weight = 0
             THEN RHalf
             ELSE Clamp01(RDiv(s3.score, Int2R(s3.weight)))

(***************************************************************************)
(* scoring.py: AnalysisResult, compute_scores                              *)
(***************************************************************************)
\* The sum with the sentiment weight forgotten.
composite_unweighted_sentiment(technical, fundamental, sentiment, w) ==
    RAdd(RAdd(RMul(technical, w.technical), RMul(fundamental, w.fundamental)), sentiment)

\* technical * weights.technical + fundamental * weights.fundamental
\*     + sentiment * weights.sentiment
composite(technical, fundamental, sentiment, w) ==
    RAdd(RAdd(RMul(technical, w.technical), RMul(fundamental, w.fundamental)),
         RMul(sentiment, w.sentiment))

\* compute_scores with a defensive check of the weights in front.
compute_scores_validating(w, prices, fundamentals, news) ==
    IF RLt(Epsilon, RAbs(RSub(WeightSum(w), R1)))
    THEN [status |-> "InvalidWeights"]
    ELSE [status |-> "ok",
          technical_score |-> score_technical(prices),
          fundamental_score |-> score_fundamentals(fundamentals),
          sentiment_score |-> aggregate_sentiment(news),
          composite_score |-> composite(score_technical(prices),
                                        score_fundamentals(fundamentals),
                                        aggregate_sentiment(news), w)]

\* compute_scores giving the weight of a dimension without data to the others.
compute_scores_redistributing(w, prices, fundamentals, news) ==
    LET wt == IF prices = <<>> THEN R0 ELSE w.technical
        wf == IF \A f \in DOMAIN fundamentals : fundamentals[f] = None
              THEN R0 ELSE w.fundamental
        ws == IF news = <<>> THEN R0 ELSE w.sentiment
        total == RAdd(RAdd(wt, wf), ws)
        sum == composite(score_technical(prices), score_fundamentals(fundamentals),
                         aggregate_sentiment(news),
                         [technical |-> wt, fundamental |-> wf, sentiment |-> ws])
    IN  [status |-> "ok",
         technical_score |-> score_technical(prices),
         fundamental_score |-> score_fundamentals(fundamentals),
         sentiment_score |-> aggregate_sentiment(news),
         composite_score |-> IF total = R0 THEN RHalf ELSE RDiv(sum, total)]

\* compute_scores(config, prices, fundamentals, news), w being config.weights.
compute_scores(w, prices, fundamentals, news) ==
    LET technical == score_technical(prices)
        fundamental == score_fundamentals(fundamentals)
        sentiment == aggregate_sentiment(news)
    IN  [status |-> "ok",
         technical_score |-> technical,
         fundamental_score |-> fundamental,
         sentiment_score |-> sentiment,
         composite_score |-> composite(technical, fundamental, sentiment, w)]

(***************************************************************************)
(* Inputs of the scorers.                                                  *)
(***************************************************************************)
MaxNews == 2

MaxCloses == 2

\* All sequences over vals of length at most n.
SeqsUpTo(vals, n) == UNION {[1..k -> vals] : k \in 0..n}

\* NewsItem.sentiment is documented as -1 to 1; the Finnhub payload is not
\* checked, so a value outside the range can arrive.
Sentiments == {Int2R(-1), R0, RHalf, R1, Int2R(2)}

NewsLists == SeqsUpTo(Sentiments, MaxNews)

\* Price frames: every short frame, and frames long enough for each window.
Flat(n) == [i \in 1..n |-> 7]

Rising(n) == [i \in 1..n |-> i]

Falling(n) == [i \in 1..n |-> 100 - i]

ZigZag(n) == [i \in 1..n |-> 10 + 2 * (i % 2)]

\* Down 1, up 2, ...: gains twice the losses.
Climb(n) == [i \in 1..n |-> 10 + (i \div 2) + 2 * (i % 2)]

\* Up 1, down 2, ...: losses twice the gains.
Slide(n) == [i \in 1..n |-> 60 - (i \div 2) - 2 * (i % 2)]

FrameLengths == {RsiWindow + 1, BollWindow, LongWindow, LongWindow + 1}

PriceFrames ==
    SeqsUpTo({10, 12}, MaxCloses)
    \cup UNION {{Flat(n), Rising(n), Falling(n), ZigZag(n), Climb(n), Slide(n)} : n \in FrameLengths}

Snapshots ==
    [pe_ratio : {None, Int2R(20), Int2R(26), Int2R(50)},
     peg_ratio : {None, Rat(11, 10), Int2R(3)},
     debt_to_equity : {None, R0, Rat(6, 10)},
     revenue_growth_pct : {None, Int2R(-40), R0, Int2R(20), Int2R(40)},
     earnings_growth_pct : {None, Int2R(-40), Int2R(10), Int2R(20)}]

\* The inputs compute_scores is called on: each dimension degraded or not.
ScoringFrames ==
    {<<>>, <<10>>, Rising(RsiWindow + 1), Falling(RsiWindow + 1), Flat(LongWindow + 1)}

ScoringSnapshots ==
    [pe_ratio : {None, Int2R(20)},
     peg_ratio : {None, Rat(11, 10)},
     debt_to_equity : {None},
     revenue_growth_pct : {None, Int2R(-40), Int2R(20)},
     earnings_growth_pct : {None, Int2R(10)}]

ScoringNews == {<<>>, <<R1>>, <<Int2R(-1), R0>>, <<Int2R(2)>>}

ScoreTechnical ==
    \E df \in PriceFrames :
        /\ op = "idle"
        /\ op' = "score_technical"
        /\ args' = [df |-> df]
        /\ out' = [status |-> "ok", value |-> score_technical(df)]
        /\ UNCHANGED <<weights, risk, dashboard>>

\* Windows the indicators are called with: small ones and the ones
\* score_technical uses.
MaWindows == {1, 2, 3, ShortWindow, LongWindow}

RsiWindows == {1, 2, RsiWindow}

MovingAverage ==
    \E df \in PriceFrames, window \in MaWindows :
        /\ op = "idle"
        /\ op' = "moving_average"
        /\ args' = [df |-> df, window |-> window]
        /\ out' = [status |-> "ok", value |-> moving_average(df, window)]
        /\ UNCHANGED <<weights, risk, dashboard>>

RelativeStrengthIndex ==
    \E df \in PriceFrames, window \in RsiWindows :
        /\ op = "idle"
        /\ op' = "relative_strength_index"
        /\ args' = [df |-> df, window |-> window]
        /\ out' = [status |-> "ok", value |-> relative_strength_index(df, window)]
        /\ UNCHANGED <<weights, risk, dashboard>>

ScoreFundamentals ==
    \E snapshot \in Snapshots :
        /\ op = "idle"
        /\ op' = "score_fundamentals"
        /\ args' = [snapshot |-> snapshot]
        /\ out' = [status |-> "ok", value |-> score_fundamentals(snapshot)]
        /\ UNCHANGED <<weights, risk, dashboard>>

AggregateSentiment ==
    \E items \in NewsLists :
        /\ op = "idle"
        /\ op' = "aggregate_sentiment"
        /\ args' = [items |-> items]
        /\ out' = [status |-> "ok", value |-> aggregate_sentiment(items)]
        /\ UNCHANGED <<weights, risk, dashboard>>

\* compute_scores(config, prices, fundamentals, news) on the manager's config.
ComputeScores ==
    \E prices \in ScoringFrames, fundamentals \in ScoringSnapshots, news \in ScoringNews :
        /\ op = "idle"
        /\ op' = "compute_scores"
        /\ args' = [prices |-> prices, fundamentals |-> fundamentals, news |-> news]
        /\ out' = compute_scores(weights, prices, fundamentals, news)
        /\ UNCHANGED <<weights, risk, dashboard>>

(***************************************************************************)
(* app.py: FIFIMainWindow.refresh_data.  Each fetch is an outcome of the   *)
(* outside world: "ok" with a value, or an exception.                      *)
(***************************************************************************)
\* pd.DataFrame(columns=["close"]).astype(float)
EmptyFrame == <<>>

\* AnalysisResult(0.5, 0.5, 0.5, 0.5)
NeutralAnalysis ==
    [technical_score |-> RHalf, fundamental_score |-> RHalf,
     sentiment_score |-> RHalf, composite_score |-> RHalf]

\* The text get_recommendation returns.
AiText == [text |-> "recommendation"]

\* A try block left by an exception with no handler around it.
except_nothing(outcome, fallback) ==
    IF outcome.status = "ok"
    THEN [raised |-> FALSE, caught |-> FALSE, value |-> outcome.value]
    ELSE [raised |-> TRUE, caught |-> FALSE, value |-> fallback]

\* try: ... except Exception: the value of the block, or the handler's.
except_Exception(outcome, fallback) ==
    IF outcome.status = "ok"
    THEN [raised |-> FALSE, caught |-> FALSE, value |-> outcome.value]
    ELSE [raised |-> FALSE, caught |-> TRUE, value |-> fallback]

\* _derive_fundamentals(symbol, prices), for closes that are positive.
_derive_fundamentals(prices) ==
    IF prices = EmptyFrame
    THEN EmptySnapshot
    ELSE LET n == Len(prices)
             first == IF n > 60 THEN n - 59 ELSE 1
             growth == IF n > 1
                       THEN RMul(RSub(Rat(prices[n], prices[first]), R1), Int2R(100))
                       ELSE R0
         IN  [pe_ratio |-> Int2R(20), peg_ratio |-> Rat(11, 10),
              debt_to_equity |-> Rat(6, 10),
              revenue_growth_pct |-> growth,
              earnings_growth_pct |-> RMul(growth, Rat(8, 10))]

\* The stages of refresh_data in order; the last is update_state.
StageNames == <<"prices", "fundamentals", "sentiment", "scores", "position", "ai", "update">>

\* try: analysis = compute_scores(config, prices, fundamental, news)
\* An exception leaving compute_scores is a choice of the environment.
scores_outcome(scores_raise, w, prices, fundamental, news) ==
    IF scores_raise
    THEN [status |-> "Exception"]
    ELSE [status |-> "ok",
          value |-> [f \in DOMAIN NeutralAnalysis |->
                        compute_scores(w, prices, fundamental, news)[f]]]

\* try: position = compute_position_size(10_000, <last close, or 100.0>, config.risk)
position_outcome(prices, r) ==
    LET price == IF prices = EmptyFrame THEN Int2R(100) ELSE Int2R(prices[Len(prices)])
        sized == compute_position_size(Int2R(10000), price, r)
    IN  IF sized.status = "ok"
        THEN [status |-> "ok",
              value |-> [f \in {"capital_at_risk", "position_size",
                                "stop_loss_price", "take_profit_price"} |-> sized[f]]]
        ELSE [status |-> sized.status]

\* if config.api_keys.openai: try: ai_summary = client.get_recommendation(prompt)
ai_outcome(ai_raise) ==
    IF ai_raise THEN [status |-> "Exception"] ELSE [status |-> "ok", value |-> AiText]

\* What a run leaves behind, from the outcomes tries of its stages in order:
\* the stages reached, the message boxes shown, the DashboardStates passed to
\* update_state, and the locals prices, fundamental and news.
refresh_data(tries, prices, fundamental, news) ==
    LET broken == {i \in 1..7 : tries[i].raised}
        reached == {i \in 1..7 : \A j \in broken : i <= j}
    IN  [status |-> IF broken = {} THEN "ok" ELSE "Exception",
         stages |-> [i \in 1..Cardinality(reached) |-> StageNames[i]],
         warnings |-> Cardinality({i \in reached \ {5} : tries[i].caught}),
         updates |-> IF broken = {}
                     THEN <<[analysis |-> tries[4].value, position |-> tries[5].value,
                             ai_summary |-> tries[6].value]>>
                     ELSE <<>>,
         prices |-> prices,
         fundamental |-> fundamental,
         news |-> news]

\* A step that is no try block.
Plain == [raised |-> FALSE, caught |-> FALSE]

\* Outcomes of the price fetch and to_dataframe: an exception (no key, HTTP
\* error, no rows) or a frame of at least one positive close.
RefreshFrames == {<<10>>, Rising(RsiWindow + 1)}

FetchPrices ==
    {[status |-> "Exception"]} \cup {[status |-> "ok", value |-> f] : f \in RefreshFrames}

FetchNews ==
    {[status |-> "Exception"]}
    \cup {[status |-> "ok", value |-> n] : n \in {<<>>, <<R1>>}}

RefreshEnvs ==
    [fetch_prices : FetchPrices, fetch_news : FetchNews,
     scores_raise : BOOLEAN, ai_raise : BOOLEAN]

\* One run of refresh_data (the timer, the toolbar action or the settings
\* tab), each local bound in the order the code assigns it.
RefreshData ==
    /\ op = "idle"
    /\ \E env \in RefreshEnvs, openai \in BOOLEAN :
       \E t_prices \in {except_Exception(env.fetch_prices, EmptyFrame)} :
       \E fundamental \in {_derive_fundamentals(t_prices.value)} :
       \E t_news \in {except_Exception(env.fetch_news, <<>>)} :
       \E t_scores \in {except_Exception(
                             scores_outcome(env.scores_raise, weights, t_prices.value,
                                            fundamental, t_news.value),
                             NeutralAnalysis)} :
       \E t_position \in {except_Exception(position_outcome(t_prices.value, risk), None)} :
       \E t_ai \in {IF openai
                     THEN except_Exception(ai_outcome(env.ai_raise), None)
                     ELSE [raised |-> FALSE, caught |-> FALSE, value |-> None]} :
       \E r \in {refresh_data(<<t_prices, Plain, t_news, t_scores, t_position, t_ai, Plain>>,
                               t_prices.value, fundamental, t_news.value)} :
           /\ op' = "refresh_data"
           /\ args' = [env |-> env, openai |-> openai]
           /\ out' = r
           /\ dashboard' = IF r.updates = <<>> THEN dashboard ELSE r.updates[Len(r.updates)]
           /\ UNCHANGED <<weights, risk>>

(***************************************************************************)
(* Construction and the specifications.                                    *)
(***************************************************************************)
\* ConfigManager.__init__: _config = AppConfig(), then load().  A file whose
\* JSON is not an object makes load, and so the constructor, raise: no
\* manager exists then.
InitConfig ==
    \E content \in FileContents :
        LET l == load([weights |-> WeightConfigDefault, risk |-> RiskConfigDefault], content)
        IN  /\ content.kind # "non_object"
            /\ op = "init"
            /\ args = content
            /\ weights = l.cfg.weights
            /\ risk = l.cfg.risk
            /\ dashboard = Blank
            /\ out = [status |-> l.status]

\* Construction where no config file exists yet.
InitDefault ==
    /\ op = "init"
    /\ args = [kind |-> "missing", weights |-> <<>>, risk |-> <<>>]
    /\ weights = WeightConfigDefault
    /\ risk = RiskConfigDefault
    /\ dashboard = Blank
    /\ out = [status |-> "ok"]

NextConfig == Load \/ UpdateWeights \/ UpdateRisk \/ Return

SpecConfig == InitConfig /\ [][NextConfig]_vars

NextRisk == ComputePositionSize \/ Return

NextScorers ==
    \/ MovingAverage \/ RelativeStrengthIndex
    \/ ScoreTechnical \/ ScoreFundamentals \/ AggregateSentiment
    \/ Return

SpecScorers == InitDefault /\ [][NextScorers]_vars

NextScoring ==
    \/ Load \/ UpdateWeights
    \/ ScoreTechnical \/ ScoreFundamentals \/ AggregateSentiment
    \/ ComputeScores
    \/ Return

SpecScoring == InitConfig /\ [][NextScoring]_vars

NextRefresh == UpdateRisk \/ RefreshData \/ Return

SpecRefresh == InitDefault /\ [][NextRefresh]_vars

Init == InitConfig

Next ==
    \/ Load \/ UpdateWeights \/ UpdateRisk
    \/ ComputePositionSize
    \/ MovingAverage \/ RelativeStrengthIndex
    \/ ScoreTechnical \/ ScoreFundamentals \/ AggregateSentiment
    \/ ComputeScores
    \/ RefreshData
    \/ Return

Spec == Init /\ [][Next]_vars

SpecRisk == InitDefault /\ [][NextRisk]_vars

(***************************************************************************)
(* Position sizing: claims C3, C4, C5, C8.                                 *)
(***************************************************************************)
Sized == op = "compute_position_size"

SizedOk == Sized /\ out.status = "ok"

\* C3: compute_position_size fails with the invalid-risk-parameters error
\* exactly when risk_per_unit = price - price*(1 - stop_loss_pct) <= 0; a
\* stop_loss_pct of 0 raises it at any price; it is raised before a division
\* is performed (so no division by zero is ever hit), and an error outcome
\* carries no sizing result.
C3_ErrorIffNoRiskPerUnit ==
    Sized =>
        LET stop == args.config.stop_loss_pct
            rpu == RSub(args.price, RMul(args.price, RSub(R1, stop)))
        IN  /\ out.status \in {"ok", "ValueError"}
            /\ (out.status = "ValueError") <=> RLe(rpu, R0)
            /\ stop = R0 => out.status = "ValueError"
            /\ out.status = "ValueError" =>
                   /\ out.divisions = 0
                   /\ DOMAIN out \cap {"capital_at_risk", "position_size",
                                       "stop_loss_price", "take_profit_price"} = {}

C3_Witness ==
    /\ Sized
    /\ args.config.stop_loss_pct = R0
    /\ args.price = Int2R(100)
    /\ out.status = "ValueError"

\* C4 as claimed: a stop_loss_pct >= 1 with a positive price raises the
\* invalid-risk-parameters error.
C4_StopAtLeastOneRaises ==
    (Sized /\ RLe(R1, args.config.stop_loss_pct) /\ RLt(R0, args.price))
        => out.status = "ValueError"

\* C4 amended: with a positive price compute_position_size raises the
\* invalid-risk-parameters error only when stop_loss_pct <= 0.  With
\* stop_loss_pct = 1.0, the largest value a RiskConfig admits, it returns:
\* risk_per_unit is the whole price, the stop-loss price is 0 and the size is
\* min(capital_at_risk / price, capital / price).
C4_StopOfOneReturns ==
    (Sized /\ RLt(R0, args.price))
        => /\ (out.status = "ValueError") <=> RLe(args.config.stop_loss_pct, R0)
           /\ RLe(R1, args.config.stop_loss_pct) =>
                  /\ out.status = "ok"
                  /\ out.stop_loss_price = R0
                  /\ out.position_size =
                         RMin(RDiv(RMul(args.capital, args.config.max_position_size_pct),
                                   args.price),
                              RDiv(args.capital, args.price))

C4_Witness ==
    /\ SizedOk
    /\ args.config.stop_loss_pct = R1
    /\ args.price = Int2R(100)
    /\ args.capital = Int2R(10000)

C5_Example ==
    /\ args.capital = Int2R(10000)
    /\ args.price = Int2R(100)
    /\ args.config.stop_loss_pct = Pct(3)
    /\ args.config.max_position_size_pct = Pct(5)

\* C5: whenever compute_position_size returns, position_size is
\* min(capital_at_risk / risk_per_unit, capital / price) with capital_at_risk =
\* capital * max_position_size_pct and risk_per_unit = price * stop_loss_pct;
\* so position_size * price <= capital and position_size * risk_per_unit <=
\* capital_at_risk, one of the two with equality.  Capital 10000, price 100,
\* stop 0.03, max position 0.05 gives stop price 97, capital at risk 500 and
\* size 100.
C5_SizeIsTighterBound ==
    SizedOk =>
        LET car == RMul(args.capital, args.config.max_position_size_pct)
            rpu == RMul(args.price, args.config.stop_loss_pct)
            size == out.position_size
        IN  /\ out.capital_at_risk = car
            /\ size = RMin(RDiv(car, rpu), RDiv(args.capital, args.price))
            /\ RLe(RMul(size, args.price), args.capital)
            /\ RLe(RMul(size, rpu), car)
            /\ RMul(size, args.price) = args.capital \/ RMul(size, rpu) = car
            /\ C5_Example =>
                   /\ out.stop_loss_price = Int2R(97)
                   /\ car = Int2R(500)
                   /\ size = Int2R(100)

C5_Witness == SizedOk /\ C5_Example /\ out.position_size = Int2R(100)

\* C8: whenever compute_position_size returns for capital >= 0 and risk
\* parameters each in [0,1], capital_at_risk, position_size, stop_loss_price
\* and take_profit_price are all non-negative.
C8_ResultNonNegative ==
    (SizedOk /\ RLe(R0, args.capital) /\ \A f \in RiskFields : InUnit(args.config[f]))
        => /\ RLe(R0, out.capital_at_risk)
           /\ RLe(R0, out.position_size)
           /\ RLe(R0, out.stop_loss_price)
           /\ RLe(R0, out.take_profit_price)

C8_Witness ==
    /\ SizedOk
    /\ args.capital = Int2R(100)
    /\ args.config.stop_loss_pct = RHalf
    /\ args.config.max_position_size_pct = Pct(5)
    /\ out.stop_loss_price = Int2R(5)

(***************************************************************************)
(* Configuration: claim C7.                                                *)
(***************************************************************************)
WeightInvariant(w) ==
    /\ \A f \in WeightFields : InUnit(w[f])
    /\ RLe(RAbs(RSub(WeightSum(w), R1)), Epsilon)

\* C7: after construction or load from any config file content (a weights
\* object supplying only some of the three fields included) and after any
\* sequence of update_weights calls, successful or raising, the weights held by
\* the manager are each in [0,1] and sum to 1.0 within 1e-6.
C7_WeightsSumToOne == WeightInvariant(weights)

(***************************************************************************)
(* Scoring: claims C1, C2, C6, C9, C10.                                    *)
(***************************************************************************)
Scored == op = "compute_scores"

WeightedSum(t, f, s, w) ==
    RAdd(RAdd(RMul(t, w.technical), RMul(f, w.fundamental)), RMul(s, w.sentiment))

SumsToOne(w) == RAdd(RAdd(w.technical, w.fundamental), w.sentiment) = R1

C1_Case ==
    /\ Scored
    /\ \A f \in WeightFields : RLe(R0, weights[f])
    /\ SumsToOne(weights)
    /\ InUnit(out.technical_score)
    /\ InUnit(out.fundamental_score)
    /\ InUnit(out.sentiment_score)

\* C1: for weights each >= 0 that sum to 1 and component scores each in
\* [0,1], the composite_score compute_scores returns lies in [0,1].
C1_CompositeInUnit == C1_Case => InUnit(out.composite_score)

C1_Witness ==
    /\ C1_Case
    /\ RLt(R0, weights.sentiment)
    /\ RLt(R0, weights.technical)
    /\ out.sentiment_score = R1
    /\ RLt(RHalf, out.composite_score)

AllDegraded ==
    /\ args.prices = <<>>
    /\ args.fundamentals = EmptySnapshot
    /\ args.news = <<>>

\* C2: missing data is never an error: score_technical on an empty price
\* series, score_fundamentals on a snapshot with all five fields absent and
\* aggregate_sentiment on an empty collection each return exactly 0.5; and
\* compute_scores on all three degraded inputs with weights summing to 1
\* returns four scores of 0.5.
C2_NeutralDefaults ==
    /\ (op = "score_technical" /\ args.df = <<>>)
           => out = [status |-> "ok", value |-> RHalf]
    /\ (op = "score_fundamentals" /\ args.snapshot = EmptySnapshot)
           => out = [status |-> "ok", value |-> RHalf]
    /\ (op = "aggregate_sentiment" /\ args.items = <<>>)
           => out = [status |-> "ok", value |-> RHalf]
    /\ Scored =>
           /\ out.status = "ok"
           /\ args.prices = <<>> => out.technical_score = RHalf
           /\ args.fundamentals = EmptySnapshot => out.fundamental_score = RHalf
           /\ args.news = <<>> => out.sentiment_score = RHalf
           /\ (AllDegraded /\ SumsToOne(weights)) => out.composite_score = RHalf

C2_Witness ==
    /\ Scored
    /\ AllDegraded
    /\ SumsToOne(weights)
    /\ weights # WeightConfigDefault
    /\ out.composite_score = RHalf

\* C6 as claimed: compute_scores raises InvalidWeights whenever the three
\* weights do not sum to 1.0 within epsilon, instead of returning a composite.
WeightsOffOne == RLt(Epsilon, RAbs(RSub(WeightSum(weights), R1)))

C9_PlainWeightedSum ==
    Scored =>
        LET t == score_technical(args.prices)
            f == score_fundamentals(args.fundamentals)
            s == aggregate_sentiment(args.news)
        IN  /\ out.technical_score = t
            /\ out.fundamental_score = f
            /\ out.sentiment_score = s
            /\ out.composite_score = WeightedSum(t, f, s, weights)
            /\ args.prices = <<>> =>
                   out.composite_score = WeightedSum(RHalf, f, s, weights)
            /\ args.fundamentals = EmptySnapshot =>
                   out.composite_score = WeightedSum(t, RHalf, s, weights)
            /\ args.news = <<>> =>
                   out.composite_score = WeightedSum(t, f, RHalf, weights)

C9_Witness ==
    /\ Scored
    /\ args.fundamentals = EmptySnapshot
    /\ args.prices # <<>>
    /\ args.news = <<R1>>
    /\ RLt(R0, weights.fundamental)
    /\ RLt(R0, weights.sentiment)
    /\ SumsToOne(weights)
    /\ out.composite_score =
           RAdd(RAdd(RMul(out.technical_score, weights.technical),
                     RMul(RHalf, weights.fundamental)),
                weights.sentiment)

FundTerm(f, v) ==
    CASE f = "pe_ratio" -> RMax(R0, RSub(R1, RDiv(RAbs(RSub(v, Int2R(20))), Int2R(15))))
      [] f = "peg_ratio" -> RMax(R0, RSub(R1, RAbs(RSub(v, R1))))
      [] f = "debt_to_equity" -> RMax(R0, RSub(R1, RDiv(RAbs(RSub(v, RHalf)), Rat(7, 10))))
      [] OTHER -> RMin(R1, RDiv(v, Int2R(20)))

FundFieldSeq ==
    <<"pe_ratio", "peg_ratio", "debt_to_equity", "revenue_growth_pct", "earnings_growth_pct">>

\* clamp(S/n, 0, 1) over the present fields of snap, 0.5 when none is present.
FundExpected(snap) ==
    LET present == {f \in FundFields : snap[f] # None}
        terms == [i \in 1..5 |->
                     IF snap[FundFieldSeq[i]] = None THEN R0
                     ELSE FundTerm(FundFieldSeq[i], snap[FundFieldSeq[i]])]
    IN  IF present = {}
        THEN RHalf
        ELSE Clamp01(RDiv(SumSeq(terms), Int2R(Cardinality(present))))

Funded == op = "score_fundamentals"

\* C10: score_fundamentals returns clamp(S/n, 0, 1), n the number of present
\* fields and S the sum of max(0, 1 - |v - ideal|/tolerance) over the present
\* PE (20, 15), PEG (1, 1) and debt/equity (0.5, 0.7) and of min(1, g/20),
\* with no lower floor, over the present growth fields; 0.5 when n = 0.  An
\* absent field changes neither S nor n (a present 0 does), a negative growth
\* lowers the score the other metrics give, a snapshot with only
\* revenue_growth_pct = 20 scores 1.0, and the result is in [0,1].
C10_MeanOfPresentMetrics ==
    Funded =>
        LET snap == args.snapshot
        IN  /\ out.status = "ok"
            /\ out.value = FundExpected(snap)
            /\ InUnit(out.value)
            /\ snap = [EmptySnapshot EXCEPT !.revenue_growth_pct = Int2R(20)]
                   => out.value = R1
            /\ snap = [EmptySnapshot EXCEPT !.debt_to_equity = R0]
                   => out.value = Rat(2, 7)
            /\ \A g \in {"revenue_growth_pct", "earnings_growth_pct"} :
                   (snap[g] # None /\ RLt(snap[g], R0))
                       => RLe(out.value, FundExpected([snap EXCEPT ![g] = None]))

C10_Witness ==
    /\ Funded
    /\ args.snapshot = [pe_ratio |-> Int2R(20), peg_ratio |-> Rat(11, 10),
                        debt_to_equity |-> None, revenue_growth_pct |-> Int2R(-40),
                        earnings_growth_pct |-> Int2R(20)]
    /\ out.value = Rat(9, 40)

(***************************************************************************)
(* Sentiment: claim C11.                                                   *)
(***************************************************************************)
Aggregated == op = "aggregate_sentiment"

\* The orderings of n items.
Orderings(n) == {p \in [1..n -> 1..n] : \A i, j \in 1..n : p[i] = p[j] => i = j}

\* (s_1 + ... + s_n + n) / (2n): the arithmetic mean of the (s_i + 1)/2.
MeanOfMapped(items) ==
    RDiv(RAdd(SumSeq(items), Int2R(Len(items))), Int2R(2 * Len(items)))

Technical == op = "score_technical"

\* The sum of the last k closes, one close at a time.
RECURSIVE TailTotal(_, _)
TailTotal(close, k) ==
    IF k = 0 THEN 0 ELSE close[Len(close) - k + 1] + TailTotal(close, k - 1)

\* The three sub-scores on the latest close, None where not computable.
TrendSubScore(close) ==
    IF Len(close) < LongWindow
    THEN None
    ELSE IF LongWindow * TailTotal(close, ShortWindow) > ShortWindow * TailTotal(close, LongWindow)
    THEN R1
    ELSE R0

RsiSubScore(close) ==
    LET rsi == relative_strength_index(close, RsiWindow)[Len(close)]
    IN  IF rsi = NaN THEN None
        ELSE IF RLe(Int2R(40), rsi) /\ RLe(rsi, Int2R(60)) THEN RHalf
        ELSE IF RLt(rsi, Int2R(30)) THEN Rat(4, 5)
        ELSE IF RLt(Int2R(70), rsi) THEN Rat(1, 5)
        ELSE Rat(3, 5)

BandSubScore(close) ==
    LET b == bollinger_bands(close, BollWindow, NumStd)[Len(close)]
    IN  IF Len(close) < BollWindow \/ b.upper = b.lower
        THEN None
        ELSE Clamp01(RSub(R1, RDiv(RSub(Int2R(close[Len(close)]), b.lower),
                                   RSub(b.upper, b.lower))))

SubScores(close) == <<TrendSubScore(close), RsiSubScore(close), BandSubScore(close)>>

Computable(close) == {i \in 1..3 : SubScores(close)[i] # None}

\* C12: for a non-empty price series score_technical returns the unweighted
\* mean, clamped to [0,1], of exactly the computable sub-scores: trend (1.0 if
\* MA20 > MA50 strictly, else 0.0; needs both averages), RSI band (0.5 if
\* 40 <= RSI <= 60, 0.8 if RSI < 30, 0.2 if RSI > 70, else 0.6) and band
\* position (clamp(1 - (close - lower)/(upper - lower), 0, 1); needs the
\* 20-period bands and upper # lower); 0.5 if none is computable.
C12_MeanOfComputableSubScores ==
    (Technical /\ args.df # <<>>) =>
        LET sub == SubScores(args.df)
            present == Computable(args.df)
            terms == [i \in 1..3 |-> IF i \in present THEN sub[i] ELSE R0]
        IN  /\ out.status = "ok"
            /\ out.value =
                   IF present = {}
                   THEN RHalf
                   ELSE Clamp01(RDiv(SumSeq(terms), Int2R(Cardinality(present))))

C12_Witness ==
    /\ Technical
    /\ args.df = Rising(LongWindow + 1)
    /\ Computable(args.df) = {1, 2, 3}
    /\ SubScores(args.df)[1] = R1
    /\ SubScores(args.df)[2] = Rat(1, 5)
    /\ RLt(R0, SubScores(args.df)[3])
    /\ RLt(Rat(2, 5), out.value)
    /\ RLt(out.value, RHalf)

(***************************************************************************)
(* Indicators: claims C13, C14.                                            *)
(***************************************************************************)
\* The total of the k closes ending at position i, one close at a time.
RECURSIVE WindowTotal(_, _, _)
WindowTotal(close, i, k) ==
    IF k = 0 THEN 0 ELSE close[i] + WindowTotal(close, i - 1, k - 1)

\* The totals of the up-moves and of the down-moves over the k moves ending
\* at position i; the move at position j is close[j] - close[j - 1].
RECURSIVE UpTotal(_, _, _)
UpTotal(close, i, k) ==
    IF k = 0 THEN 0
    ELSE (IF close[i] > close[i - 1] THEN close[i] - close[i - 1] ELSE 0)
         + UpTotal(close, i - 1, k - 1)

RECURSIVE DownTotal(_, _, _)
DownTotal(close, i, k) ==
    IF k = 0 THEN 0
    ELSE (IF close[i] < close[i - 1] THEN close[i - 1] - close[i] ELSE 0)
         + DownTotal(close, i - 1, k - 1)

\* C13: relative_strength_index never yields an undefined value and always
\* lies in [0,100]: where the trailing-window mean of down-moves is 0 and that
\* of up-moves is positive it is 100; where both are 0 or the window is not
\* yet full it is 50; otherwise it is 100 - 100/(1 + meanUp/meanDown).
C13_RsiDefinedAndBounded ==
    (op = "relative_strength_index") =>
        LET close == args.df
            w == args.window
        IN  /\ out.status = "ok"
            /\ Len(out.value) = Len(close)
            /\ \A i \in 1..Len(close) :
                   LET rsi == out.value[i]
                       full == i - w >= 1
                       meanUp == IF full THEN Rat(UpTotal(close, i, w), w) ELSE NaN
                       meanDown == IF full THEN Rat(DownTotal(close, i, w), w) ELSE NaN
                   IN  /\ rsi # NaN
                       /\ RLe(R0, rsi) /\ RLe(rsi, Int2R(100))
                       /\ rsi = IF ~full THEN Int2R(50)
                                ELSE IF meanDown = R0 /\ meanUp = R0 THEN Int2R(50)
                                ELSE IF meanDown = R0 THEN Int2R(100)
                                ELSE RSub(Int2R(100),
                                          RDiv(Int2R(100), RAdd(R1, RDiv(meanUp, meanDown))))

C13_Witness ==
    /\ op = "relative_strength_index"
    /\ args.df = Climb(LongWindow)
    /\ args.window = RsiWindow
    /\ out.value[RsiWindow] = Int2R(50)
    /\ out.value[RsiWindow + 1] = Rat(200, 3)

\* C14: moving_average(series, w) has no value at every 0-based position i
\* with i + 1 < w, and at every other position equals the exact arithmetic
\* mean of the w closes ending at that position.
C14_MovingAverageExactMean ==
    (op = "moving_average") =>
        LET close == args.df
            w == args.window
        IN  /\ out.status = "ok"
            /\ Len(out.value) = Len(close)
            /\ \A i \in 0..(Len(close) - 1) :
                   IF i + 1 < w
                   THEN out.value[i + 1] = NaN
                   ELSE /\ out.value[i + 1] # NaN
                        /\ RMul(out.value[i + 1], Int2R(w)) = Int2R(WindowTotal(close, i + 1, w))

C14_Witness ==
    /\ op = "moving_average"
    /\ args.df = Rising(ShortWindow)
    /\ args.window = ShortWindow
    /\ out.value[ShortWindow - 1] = NaN
    /\ out.value[ShortWindow] = Rat(21, 2)

(***************************************************************************)
(* Position sizing: claims C15, C16.                                       *)
(***************************************************************************)
\* C15: the outcome of compute_position_size, the error or the four result
\* fields, does not depend on max_daily_loss_pct: a call differing only in
\* max_daily_loss_pct has the identical outcome.
C15_DailyLossIgnored ==
    Sized =>
        \A d \in DailyVals :
            compute_position_size(args.capital, args.price,
                                  [args.config EXCEPT !.max_daily_loss_pct = d]) = out

C15_Witness ==
    /\ SizedOk
    /\ args.config.max_daily_loss_pct = R0
    /\ args.config.max_position_size_pct = Pct(5)
    /\ args.config.stop_loss_pct = Pct(5)
    /\ args.capital = Int2R(100)
    /\ args.price = Int2R(10)
    /\ out.capital_at_risk = Int2R(5)
    /\ out.position_size = Int2R(10)

C16_Case ==
    /\ Sized
    /\ RLt(R0, args.capital)
    /\ RLt(R0, args.price)
    /\ RLt(R0, args.config.stop_loss_pct)
    /\ RLe(args.config.stop_loss_pct, R1)

Constant(close) == \A i \in 1..Len(close) : close[i] = close[1]

\* C17: for a price series of at least 50 equal closes score_technical returns
\* exactly 0.25: the trend sub-score is 0.0 (MA20 > MA50 is strict), the RSI
\* sub-score is 0.5 from the RSI fallback of 50, and the band position is
\* skipped for zero band width.  The RSI sub-score is counted for every
\* non-empty series, so the result is never the 0.5 of no computable
\* sub-score: a series too short for the averages and the bands scores its
\* RSI band alone.
C17_ConstantSeriesQuarter ==
    (Technical /\ args.df # <<>>) =>
        LET close == args.df
            last == Len(close)
            rsi == relative_strength_index(close, RsiWindow)[last]
            boll == bollinger_bands(close, BollWindow, NumStd)[last]
        IN  /\ rsi # NaN
            /\ 2 \in Computable(close)
            /\ Len(close) < BollWindow => out.value = RsiSubScore(close)
            /\ (Len(close) >= LongWindow /\ Constant(close)) =>
                   /\ out.value = Rat(1, 4)
                   /\ moving_average(close, ShortWindow)[last]
                          = moving_average(close, LongWindow)[last]
                   /\ TrendSubScore(close) = R0
                   /\ rsi = Int2R(50)
                   /\ RsiSubScore(close) = RHalf
                   /\ boll.upper # NaN /\ boll.upper = boll.lower
                   /\ Computable(close) = {1, 2}

C17_Witness ==
    /\ Technical
    /\ args.df = Flat(LongWindow)
    /\ out.value = Rat(1, 4)

\* A short series scored by its RSI band alone, away from 0.5.
C17_ShortSeriesWitness ==
    /\ Technical
    /\ args.df = Rising(RsiWindow + 1)
    /\ Computable(args.df) = {2}
    /\ out.value = Rat(1, 5)

(***************************************************************************)
(* The refresh pipeline: claim C18.                                        *)
(***************************************************************************)
Refreshed == op = "refresh_data"

\* The price compute_position_size is given: the last close, 100 if none.
SizingPrice(prices) ==
    IF prices = <<>> THEN Int2R(100) ELSE Int2R(prices[Len(prices)])

\* C18: every refresh_data run, whatever subset of its stages fails (price
\* fetch, sentiment fetch, score computation, position sizing, AI summary),
\* runs to the end and updates the dashboard exactly once with an analysis
\* that is not None: a failed price fetch degrades to an empty series and an
\* all-absent fundamentals snapshot, a failed sentiment fetch to an empty news
\* list, a failed score computation to AnalysisResult(0.5, 0.5, 0.5, 0.5), a
\* failed position sizing (stop_loss_pct = 0) to position None; and a failure
\* in one stage does not keep the later stages from running.
C18_RefreshAlwaysCompletes ==
    Refreshed =>
        LET env == args.env
            sized == compute_position_size(Int2R(10000), SizingPrice(out.prices), risk)
        IN  /\ out.status = "ok"
            /\ out.stages = StageNames
            /\ Len(out.updates) = 1
            /\ dashboard = out.updates[1]
            /\ dashboard.analysis # None
            /\ env.fetch_prices.status # "ok" =>
                   out.prices = <<>> /\ out.fundamental = EmptySnapshot
            /\ env.fetch_prices.status = "ok" => out.prices = env.fetch_prices.value
            /\ env.fetch_news.status # "ok" => out.news = <<>>
            /\ env.fetch_news.status = "ok" => out.news = env.fetch_news.value
            /\ env.scores_raise => dashboard.analysis = NeutralAnalysis
            /\ ~env.scores_raise =>
                   LET scored == compute_scores(weights, out.prices, out.fundamental, out.news)
                   IN  \A f \in DOMAIN NeutralAnalysis : dashboard.analysis[f] = scored[f]
            /\ risk.stop_loss_pct = R0 => dashboard.position = None
            /\ sized.status # "ok" => dashboard.position = None
            /\ sized.status = "ok" =>
                   /\ dashboard.position # None
                   /\ dashboard.position.position_size = sized.position_size
            /\ dashboard.ai_summary = IF args.openai /\ ~env.ai_raise THEN AiText ELSE None

\* Every stage that can fail does, and the run still ends in one update.
C18_Witness ==
    /\ Refreshed
    /\ args.env.fetch_prices.status # "ok"
    /\ args.env.fetch_news.status # "ok"
    /\ args.env.scores_raise
    /\ risk.stop_loss_pct = R0
    /\ args.openai /\ args.env.ai_raise
    /\ out.warnings = 4
    /\ dashboard = [analysis |-> NeutralAnalysis, position |-> None, ai_summary |-> None]

\* Only the first stage fails, and every later one runs on the degraded input.
C18_LaterStagesWitness ==
    /\ Refreshed
    /\ args.env.fetch_prices.status # "ok"
    /\ args.env.fetch_news = [status |-> "ok", value |-> <<R1>>]
    /\ ~args.env.scores_raise
    /\ dashboard.analysis.technical_score = RHalf
    /\ dashboard.analysis.sentiment_score = R1
    /\ dashboard.position # None
    /\ dashboard.position.stop_loss_price = Int2R(97)
    /\ dashboard.ai_summary = AiText

====
